---------------------------- MODULE Spec2Model ----------------------------
(***************************************************************************)
(* Model of the Cary curbside pick up Alexa skill (main.go).               *)
(*                                                                         *)
(* One Lambda invocation is a state machine: intentDispatcher reads the    *)
(* STREET_ADDRESS configuration and the intent, the handlers call          *)
(* getThirtyDaySchedule, which issues the address-suggest request and then *)
(* the events request.  The two blocking HTTP calls are the points where   *)
(* the environment chooses an outcome.  Strings are TLA+ strings and the   *)
(* conversions of the code (ToLower, time.Parse, Time.Format, sort.Strings,*)
(* Sprintf) are computed character by character.                           *)
(***************************************************************************)
EXTENDS Integers, Sequences, FiniteSets, TLC

VARIABLES
    pc,            \* position of the invocation
    address,       \* os.Getenv("STREET_ADDRESS")
    intentName,    \* request.Body.Intent.Name
    serviceType,   \* request.Body.Intent.Slots["collectionType"].Value
    requests,      \* the outbound HTTP requests issued so far, in order
    addressResp,   \* outcome of the address-suggest request
    scheduleResp,  \* outcome of the events request
    occurrences,   \* the slice getThirtyDaySchedule returned
    pickUpDate,    \* local of handleWhatIsNext
    serviceNames,  \* local of handleWhatIsNext (after sort.Strings)
    response,      \* the alexa.Response returned by intentDispatcher
    err            \* the error returned by intentDispatcher

vars == << pc, address, intentName, serviceType, requests, addressResp,
           scheduleResp, occurrences, pickUpDate, serviceNames, response, err >>

-----------------------------------------------------------------------------
(* Bounds of the model *)

MaxEvents == 3
MaxFlags == 2
MaxCandidates == 2

-----------------------------------------------------------------------------
(* Strings *)

UpperChars == "ABCDEFGHIJKLMNOPQRSTUVWXYZ"
LowerChars == "abcdefghijklmnopqrstuvwxyz"
Digits == "0123456789"
\* the printable ASCII characters in ascending byte order (the double quote,
\* the backslash and the backquote left out)
ByteOrder == " !#$%&'()*+,-./0123456789:;<=>?@ABCDEFGHIJKLMNOPQRSTUVWXYZ[]^_abcdefghijklmnopqrstuvwxyz{|}~"

CharAt(s, i) == SubSeq(s, i, i)

\* unicode.ToLower on the ASCII letters
LowerMap == [c \in {CharAt(UpperChars, i) : i \in 1..Len(UpperChars)} |->
                CharAt(LowerChars, CHOOSE i \in 1..Len(UpperChars) : CharAt(UpperChars, i) = c)]

LowerChar(c) == IF c \in DOMAIN LowerMap THEN LowerMap[c] ELSE c

RECURSIVE ToLower(_)
ToLower(s) == IF s = "" THEN "" ELSE LowerChar(Head(s)) \o ToLower(Tail(s))

DigitMap == [c \in {CharAt(Digits, i) : i \in 1..Len(Digits)} |->
                (CHOOSE i \in 1..Len(Digits) : CharAt(Digits, i) = c) - 1]

IsDigit(c) == c \in DOMAIN DigitMap
DigitVal(c) == DigitMap[c]

\* the byte value of a character, as its rank among the printable characters
ByteRank == [c \in {CharAt(ByteOrder, i) : i \in 1..Len(ByteOrder)} |->
                CHOOSE i \in 1..Len(ByteOrder) : CharAt(ByteOrder, i) = c]

HasPrefix(s, p) == Len(s) >= Len(p) /\ SubSeq(s, 1, Len(p)) = p
HasSuffix(s, p) == Len(s) >= Len(p) /\ SubSeq(s, Len(s) - Len(p) + 1, Len(s)) = p
Contains(s, p) == \E i \in 1..(Len(s) - Len(p) + 1) : SubSeq(s, i, i + Len(p) - 1) = p

\* byte-wise string order used by sort.Strings
RECURSIVE StrLess(_, _)
StrLess(a, b) ==
    IF b = "" THEN FALSE
    ELSE IF a = "" THEN TRUE
    ELSE IF Head(a) = Head(b) THEN StrLess(Tail(a), Tail(b))
    ELSE ByteRank[Head(a)] < ByteRank[Head(b)]

RECURSIVE Insert(_, _)
Insert(x, sorted) ==
    IF sorted = << >> THEN << x >>
    ELSE IF StrLess(Head(sorted), x) THEN << Head(sorted) >> \o Insert(x, Tail(sorted))
    ELSE << x >> \o sorted

RECURSIVE SortStrings(_)
SortStrings(xs) == IF xs = << >> THEN << >> ELSE Insert(Head(xs), SortStrings(Tail(xs)))

-----------------------------------------------------------------------------
(* time.Parse("2006-01-02", day) and Time.Format("Monday, January 2, 2006") *)

WeekdayNames == << "Sunday", "Monday", "Tuesday", "Wednesday", "Thursday", "Friday", "Saturday" >>
MonthNames == << "January", "February", "March", "April", "May", "June", "July",
                 "August", "September", "October", "November", "December" >>

IsLeap(y) == y % 4 = 0 /\ (y % 100 # 0 \/ y % 400 = 0)

DaysIn(m, y) ==
    IF m = 2 THEN (IF IsLeap(y) THEN 29 ELSE 28)
    ELSE IF m \in {4, 6, 9, 11} THEN 30 ELSE 31

\* the zero time.Time: January 1, year 1
ZeroTime == [year |-> 1, month |-> 1, day |-> 1]

Num2(s, i) == 10 * DigitVal(CharAt(s, i)) + DigitVal(CharAt(s, i + 1))

\* time.Parse with layout 2006-01-02: four digits, two digits, two digits,
\* month and day in range, no extra text; [ok |-> FALSE] with the zero time otherwise
ParseDay(s) ==
    IF /\ Len(s) = 10
       /\ \A i \in {1, 2, 3, 4, 6, 7, 9, 10} : IsDigit(CharAt(s, i))
       /\ CharAt(s, 5) = "-"
       /\ CharAt(s, 8) = "-"
    THEN LET y == 100 * Num2(s, 1) + Num2(s, 3)
             m == Num2(s, 6)
             d == Num2(s, 9)
         IN IF m \in 1..12 /\ d >= 1 /\ d <= DaysIn(m, y)
            THEN [ok |-> TRUE, t |-> [year |-> y, month |-> m, day |-> d]]
            ELSE [ok |-> FALSE, t |-> ZeroTime]
    ELSE [ok |-> FALSE, t |-> ZeroTime]

RECURSIVE DaysBeforeMonth(_, _)
DaysBeforeMonth(m, y) == IF m = 1 THEN 0 ELSE DaysBeforeMonth(m - 1, y) + DaysIn(m - 1, y)

\* days elapsed since January 1, year 1 (a Monday)
DaysSinceEpoch(t) ==
    LET p == t.year - 1
    IN 365 * p + (p \div 4) - (p \div 100) + (p \div 400)
       + DaysBeforeMonth(t.month, t.year) + (t.day - 1)

Weekday(t) == (DaysSinceEpoch(t) + 1) % 7

Pad4(n) ==
    LET s == ToString(n)
    IN IF Len(s) >= 4 THEN s ELSE SubSeq("0000", 1, 4 - Len(s)) \o s

FormatTime(t) ==
    WeekdayNames[Weekday(t) + 1] \o ", " \o MonthNames[t.month] \o " "
        \o ToString(t.day) \o ", " \o Pad4(t.year)

-----------------------------------------------------------------------------
(* serviceOccurrence *)

GetName(s) ==
    IF s.name = "yardwaste" THEN "Yard Waste"
    ELSE IF s.name = "looseleaf" THEN "Leaf Collection"
    ELSE s.name

\* the parse error is discarded: an unparsable day formats the zero time
GetFormattedDay(s) == FormatTime(ParseDay(s.day).t)


-----------------------------------------------------------------------------
(* Values of the Go types *)

\* an error is nil (the empty tuple) or carries its message
Nil == << >>
Error(msg) == << msg >>

\* alexa.NewSimpleResponse(title, text) and the zero alexa.Response{}
NewSimpleResponse(title, text) == [title |-> title, text |-> text]
EmptyResponse == [title |-> "", text |-> ""]

-----------------------------------------------------------------------------
(* getAddressID: the part after client.Get returned *)

\* faulty variant: an empty candidate array is not reported
getAddressID_EmptyOk(resp) ==
    IF resp.kind = "transport" THEN [id |-> "", err |-> Error(resp.cause)]
    ELSE IF resp.status # "200 OK"
    THEN [id |-> "", err |-> Error("failed to find the address: " \o resp.status)]
    ELSE IF resp.kind = "read_error"
    THEN [id |-> "", err |-> Error("failed to find the address: " \o resp.cause)]
    ELSE IF resp.kind = "invalid_json"
    THEN [id |-> "", err |-> Error("failed to unmarshall the response: " \o resp.cause)]
    ELSE IF Len(resp.addresses) = 0
    THEN [id |-> "", err |-> Nil]
    ELSE [id |-> resp.addresses[1], err |-> Nil]

\* faulty variant: the last candidate is returned instead of the first
getAddressID_LastCandidate(resp) ==
    IF resp.kind = "transport" THEN [id |-> "", err |-> Error(resp.cause)]
    ELSE IF resp.status # "200 OK"
    THEN [id |-> "", err |-> Error("failed to find the address: " \o resp.status)]
    ELSE IF resp.kind = "read_error"
    THEN [id |-> "", err |-> Error("failed to find the address: " \o resp.cause)]
    ELSE IF resp.kind = "invalid_json"
    THEN [id |-> "", err |-> Error("failed to unmarshall the response: " \o resp.cause)]
    ELSE IF Len(resp.addresses) = 0
    THEN [id |-> "", err |-> Error("the address wasn't found")]
    ELSE [id |-> resp.addresses[Len(resp.addresses)], err |-> Nil]

getAddressID(resp) ==
    IF resp.kind = "transport" THEN [id |-> "", err |-> Error(resp.cause)]
    ELSE IF resp.status # "200 OK"
    THEN [id |-> "", err |-> Error("failed to find the address: " \o resp.status)]
    ELSE IF resp.kind = "read_error"
    THEN [id |-> "", err |-> Error("failed to find the address: " \o resp.cause)]
    ELSE IF resp.kind = "invalid_json"
    THEN [id |-> "", err |-> Error("failed to unmarshall the response: " \o resp.cause)]
    ELSE IF Len(resp.addresses) = 0
    THEN [id |-> "", err |-> Error("the address wasn't found")]
    ELSE [id |-> resp.addresses[1], err |-> Nil]

-----------------------------------------------------------------------------
(* getThirtyDaySchedule: the part after the events request returned *)

\* faulty variant: the inner loop does not break after the first waste flag
RECURSIVE FlagLoop_NoBreak(_, _)
FlagLoop_NoBreak(day, flags) ==
    IF flags = << >> THEN << >>
    ELSE IF Head(flags).service_name = "waste"
    THEN << [day |-> day, name |-> Head(flags).name] >> \o FlagLoop_NoBreak(day, Tail(flags))
    ELSE FlagLoop_NoBreak(day, Tail(flags))

\* the inner loop over event.Flags: the occurrence of the first flag whose
\* service_name is "waste" (break), none when the event has no such flag
RECURSIVE FlagLoop(_, _)
FlagLoop(day, flags) ==
    IF flags = << >> THEN << >>
    ELSE IF Head(flags).service_name = "waste"
    THEN << [day |-> day, name |-> Head(flags).name] >>
    ELSE FlagLoop(day, Tail(flags))

\* the outer loop over rvJSON.Events
RECURSIVE EventLoop(_)
EventLoop(events) ==
    IF events = << >> THEN << >>
    ELSE FlagLoop(Head(events).day, Head(events).flags) \o EventLoop(Tail(events))

ScheduleResult(resp) ==
    IF resp.kind = "transport" THEN [occurrences |-> << >>, err |-> Nil]
    ELSE IF resp.status # "200 OK"
    THEN [occurrences |-> << >>, err |-> Error("failed to get the schedule: " \o resp.status)]
    ELSE IF resp.kind = "read_error"
    THEN [occurrences |-> << >>, err |-> Error("failed to get the schedule")]
    ELSE IF resp.kind = "invalid_json"
    THEN [occurrences |-> << >>, err |-> Error("failed to unmarshall the response: " \o resp.cause)]
    ELSE [occurrences |-> EventLoop(resp.events), err |-> Nil]

-----------------------------------------------------------------------------
(* handleGetSchedule *)

\* faulty variant: the friendly name is compared without lowercasing it
RECURSIVE GetScheduleLoop_CaseSensitive(_, _, _)
GetScheduleLoop_CaseSensitive(occs, svcType, serviceTypeLower) ==
    IF occs = << >>
    THEN NewSimpleResponse(svcType \o " Curbside Pick Up",
             "Curbside pick up for " \o svcType \o " is not scheduled in the next 30 days.")
    ELSE IF GetName(Head(occs)) = serviceTypeLower
    THEN NewSimpleResponse(GetName(Head(occs)) \o " Curbside Pick Up",
             "Curbside pick up for " \o serviceTypeLower \o " is on "
                 \o GetFormattedDay(Head(occs)) \o ".")
    ELSE GetScheduleLoop_CaseSensitive(Tail(occs), svcType, serviceTypeLower)

RECURSIVE GetScheduleLoop(_, _, _)
GetScheduleLoop(occs, svcType, serviceTypeLower) ==
    IF occs = << >>
    THEN NewSimpleResponse(svcType \o " Curbside Pick Up",
             "Curbside pick up for " \o svcType \o " is not scheduled in the next 30 days.")
    ELSE IF ToLower(GetName(Head(occs))) = serviceTypeLower
    THEN NewSimpleResponse(GetName(Head(occs)) \o " Curbside Pick Up",
             "Curbside pick up for " \o serviceTypeLower \o " is on "
                 \o GetFormattedDay(Head(occs)) \o ".")
    ELSE GetScheduleLoop(Tail(occs), svcType, serviceTypeLower)

handleGetSchedule(sched, svcType) ==
    IF sched.err # Nil THEN [response |-> EmptyResponse, err |-> sched.err]
    ELSE [response |-> GetScheduleLoop(sched.occurrences, svcType, ToLower(svcType)),
          err |-> Nil]

-----------------------------------------------------------------------------
(* handleWhatIsNext *)

\* faulty variant: the loop never breaks and collects the occurrences of every day
RECURSIVE CollectLoop_NoBreak(_, _, _, _)
CollectLoop_NoBreak(occs, i, date, names) ==
    IF i > Len(occs) THEN [pickUpDate |-> date, serviceNames |-> names]
    ELSE IF i = 1
    THEN CollectLoop_NoBreak(occs, i + 1, GetFormattedDay(occs[i]), Append(names, occs[i].name))
    ELSE CollectLoop_NoBreak(occs, i + 1, date, Append(names, occs[i].name))

\* the loop over occurrences from index i (0-based in the code, 1-based here)
RECURSIVE CollectLoop(_, _, _, _)
CollectLoop(occs, i, date, names) ==
    IF i > Len(occs) THEN [pickUpDate |-> date, serviceNames |-> names]
    ELSE IF i = 1
    THEN CollectLoop(occs, i + 1, GetFormattedDay(occs[i]), Append(names, occs[i].name))
    ELSE IF date # GetFormattedDay(occs[i])
    THEN [pickUpDate |-> date, serviceNames |-> names]
    ELSE CollectLoop(occs, i + 1, date, Append(names, occs[i].name))

\* the loop that appends the sorted service names to msg
RECURSIVE JoinLoop(_, _, _)
JoinLoop(names, i, msg) ==
    IF i > Len(names) THEN msg
    ELSE IF i # 1 /\ i = Len(names)
    THEN JoinLoop(names, i + 1, msg \o ", and " \o ToLower(names[i]))
    ELSE IF i # Len(names)
    THEN JoinLoop(names, i + 1, msg \o ", " \o ToLower(names[i]))
    ELSE JoinLoop(names, i + 1, msg \o " " \o ToLower(names[i]) \o ".")

\* faulty variant: a single collected service is treated as none
handleWhatIsNext_EmptyCheck(sched) ==
    IF sched.err # Nil
    THEN [response |-> EmptyResponse, err |-> sched.err,
          pickUpDate |-> "", serviceNames |-> << >>]
    ELSE LET c == CollectLoop(sched.occurrences, 1, "", << >>)
         IN IF Len(c.serviceNames) <= 1
            THEN [response |-> NewSimpleResponse("No Curbside Pick Up",
                                   "No curbside pick up is scheduled in the next 30 days."),
                  err |-> Nil, pickUpDate |-> c.pickUpDate, serviceNames |-> c.serviceNames]
            ELSE LET sorted == SortStrings(c.serviceNames)
                     msg == "On " \o c.pickUpDate \o ", there will be curb side pick up for: "
                 IN [response |-> NewSimpleResponse("Curbside Pick Up Schedule",
                                      JoinLoop(sorted, 1, msg)),
                     err |-> Nil, pickUpDate |-> c.pickUpDate, serviceNames |-> sorted]

handleWhatIsNext(sched) ==
    IF sched.err # Nil
    THEN [response |-> EmptyResponse, err |-> sched.err,
          pickUpDate |-> "", serviceNames |-> << >>]
    ELSE LET c == CollectLoop(sched.occurrences, 1, "", << >>)
         IN IF Len(c.serviceNames) = 0
            THEN [response |-> NewSimpleResponse("No Curbside Pick Up",
                                   "No curbside pick up is scheduled in the next 30 days."),
                  err |-> Nil, pickUpDate |-> c.pickUpDate, serviceNames |-> c.serviceNames]
            ELSE LET sorted == SortStrings(c.serviceNames)
                     msg == "On " \o c.pickUpDate \o ", there will be curb side pick up for: "
                 IN [response |-> NewSimpleResponse("Curbside Pick Up Schedule",
                                      JoinLoop(sorted, 1, msg)),
                     err |-> Nil, pickUpDate |-> c.pickUpDate, serviceNames |-> sorted]

-----------------------------------------------------------------------------
(* intentDispatcher *)

helpMsg == "You can say things like what's next or when's "
           \o "recycling. The four supported collection types are: "
           \o "garbage, recycling, yard waste, and leaf collection."

\* faulty variant: the switch has no case for the help intent
IntentCase_NoHelp(name) ==
    IF name = "GetSchedule" THEN "GetSchedule"
    ELSE IF name = "WhatIsNext" THEN "WhatIsNext"
    ELSE "default"

\* the switch on request.Body.Intent.Name
IntentCase(name) ==
    IF name = "GetSchedule" THEN "GetSchedule"
    ELSE IF name = "WhatIsNext" THEN "WhatIsNext"
    ELSE IF name = "AMAZON.HelpIntent" THEN "Help"
    ELSE "default"

-----------------------------------------------------------------------------
(* Inputs: configuration, requests and upstream outcomes *)

Addresses == {"", "1260 NW Maynard Rd"}

SlotValues == {"yard waste", "Leaf Collection", "RECYCLING"}

Requests ==
    {[name |-> "GetSchedule", slot |-> s] : s \in SlotValues}
    \cup {[name |-> n, slot |-> ""] : n \in {"WhatIsNext", "AMAZON.HelpIntent", "AMAZON.StopIntent"}}

SeqsUpTo(S, n) == UNION {[1..k -> S] : k \in 0..n}

\* outcomes of client.Get and of reading the body that carry no payload
Failures ==
    {[kind |-> "transport", status |-> "", cause |-> "Client.Timeout exceeded"],
     [kind |-> "transport", status |-> "", cause |-> "connection refused"],
     [kind |-> "http", status |-> "500 Internal Server Error", cause |-> ""],
     [kind |-> "read_error", status |-> "200 OK", cause |-> "unexpected EOF"],
     [kind |-> "invalid_json", status |-> "200 OK", cause |-> "invalid character"]}

PlaceIDs == {"place-1", "place-2"}

\* candidate lists: place identifiers without repetition
Candidates == {a \in SeqsUpTo(PlaceIDs, MaxCandidates) :
                  \A i, j \in 1..Len(a) : a[i] = a[j] => i = j}

AddressResponses ==
    {[kind |-> f.kind, status |-> f.status, cause |-> f.cause, addresses |-> << >>] : f \in Failures}
    \cup {[kind |-> "json", status |-> "200 OK", cause |-> "", addresses |-> a] : a \in Candidates}

Flag(n, sn) == [name |-> n, service_name |-> sn]

WasteEvents(days, codes) == {[day |-> d, flags |-> << Flag(c, "waste") >>] : d \in days, c \in codes}

\* events as the upstream sends them with nomerge=1, one waste flag each:
\* two services on two calendar days and on two day strings time.Parse rejects
DayEvents == WasteEvents({"2025-03-10", "2025-03-17", "2025-02-30", "03/17/2025"},
                         {"Garbage", "Recycling"})

\* the services with and without a friendly name, on two calendar days
ServiceEvents == WasteEvents({"2025-03-10", "2025-03-17"}, {"Recycling", "yardwaste", "looseleaf"})

\* events that carry up to MaxFlags flags, waste or not
FlagUniverse == {Flag("Garbage", "waste"), Flag("Recycling", "waste"), Flag("Holiday", "reminder")}
FlaggedEvents == {[day |-> "2025-03-10", flags |-> f] : f \in SeqsUpTo(FlagUniverse, MaxFlags)}

EventBodies ==
    SeqsUpTo(DayEvents, MaxEvents) \cup SeqsUpTo(ServiceEvents, MaxEvents)
        \cup (FlaggedEvents \X FlaggedEvents) \cup {<< e >> : e \in FlaggedEvents}

ScheduleResponses ==
    {[kind |-> f.kind, status |-> f.status, cause |-> f.cause, events |-> << >>] : f \in Failures}
    \cup {[kind |-> "json", status |-> "200 OK", cause |-> "", events |-> e] : e \in EventBodies}

NoResponse == [kind |-> "none"]

-----------------------------------------------------------------------------
(* The invocation *)

Init ==
    /\ pc = "idle"
    /\ address \in Addresses
    /\ intentName = ""
    /\ serviceType = ""
    /\ requests = << >>
    /\ addressResp = NoResponse
    /\ scheduleResp = NoResponse
    /\ occurrences = << >>
    /\ pickUpDate = ""
    /\ serviceNames = << >>
    /\ response = EmptyResponse
    /\ err = Nil

\* intentDispatcher up to its return, or up to the client.Get of getAddressID
\* when the intent has a handler
intentDispatcher ==
    /\ pc = "idle"
    /\ \E req \in Requests :
        /\ intentName' = req.name
        /\ serviceType' = req.slot
        /\ IF address = ""
           THEN /\ pc' = "panicked"
                /\ UNCHANGED << requests, response >>
           ELSE IF IntentCase(req.name) \in {"GetSchedule", "WhatIsNext"}
           THEN /\ pc' = "getAddressID"
                /\ requests' = Append(requests, [endpoint |-> "address-suggest", arg |-> address])
                /\ UNCHANGED response
           ELSE IF IntentCase(req.name) = "Help"
           THEN /\ pc' = "returned"
                /\ response' = NewSimpleResponse("Help", helpMsg)
                /\ UNCHANGED requests
           ELSE /\ pc' = "returned"
                /\ response' = NewSimpleResponse("Unknown Request", "The intent was unrecognized")
                /\ UNCHANGED requests
    /\ UNCHANGED << address, addressResp, scheduleResp, occurrences, pickUpDate,
                    serviceNames, err >>

\* the address-suggest request returns: getAddressID finishes, and
\* getThirtyDaySchedule either returns its error through the handler and the
\* dispatcher, or issues the events request
AddressReturns ==
    /\ pc = "getAddressID"
    /\ \E resp \in AddressResponses :
        LET r == getAddressID(resp)
        IN /\ addressResp' = resp
           /\ IF r.err # Nil
              THEN /\ pc' = "returned"
                   /\ response' = EmptyResponse
                   /\ err' = r.err
                   /\ UNCHANGED requests
              ELSE /\ pc' = "getThirtyDaySchedule"
                   /\ requests' = Append(requests, [endpoint |-> "events", arg |-> r.id])
                   /\ UNCHANGED << response, err >>
    /\ UNCHANGED << address, intentName, serviceType, scheduleResp, occurrences,
                    pickUpDate, serviceNames >>

\* the events request returns: getThirtyDaySchedule finishes and the handler
\* of the intent builds the response, which the dispatcher returns
ScheduleReturns ==
    /\ pc = "getThirtyDaySchedule"
    /\ \E resp \in ScheduleResponses :
        LET sched == ScheduleResult(resp)
        IN /\ scheduleResp' = resp
           /\ occurrences' = sched.occurrences
           /\ IF IntentCase(intentName) = "GetSchedule"
              THEN LET h == handleGetSchedule(sched, serviceType)
                   IN /\ response' = h.response
                      /\ err' = h.err
                      /\ UNCHANGED << pickUpDate, serviceNames >>
              ELSE LET h == handleWhatIsNext(sched)
                   IN /\ response' = h.response
                      /\ err' = h.err
                      /\ pickUpDate' = h.pickUpDate
                      /\ serviceNames' = h.serviceNames
    /\ pc' = "returned"
    /\ UNCHANGED << address, intentName, serviceType, requests, addressResp >>

Next == intentDispatcher \/ AddressReturns \/ ScheduleReturns

Spec == Init /\ [][Next]_vars

-----------------------------------------------------------------------------
(* Vocabulary of the properties *)

Returned == pc = "returned"
Answered == pc = "returned" /\ err = Nil
ScheduleFetched == scheduleResp.kind = "json"
AddressResolved == addressResp.kind = "json" /\ Len(addressResp.addresses) >= 1

RECURSIVE CommaJoin(_)
CommaJoin(names) ==
    IF Len(names) = 1 THEN ToLower(names[1])
    ELSE ToLower(Head(names)) \o ", " \o CommaJoin(Tail(names))

\* the list-join of the specification: "a.", "a, and b.", "a, b, and c."
ListJoin(names) ==
    IF Len(names) = 1 THEN ToLower(names[1]) \o "."
    ELSE CommaJoin(SubSeq(names, 1, Len(names) - 1)) \o ", and "
             \o ToLower(names[Len(names)]) \o "."

NextPrefix(day) == "On " \o day \o ", there will be curb side pick up for: "

ExampleEvents ==
    << [day |-> "2025-03-10", flags |-> << Flag("Garbage", "waste") >>],
       [day |-> "2025-03-10", flags |-> << Flag("Recycling", "waste") >>],
       [day |-> "2025-03-17", flags |-> << Flag("Garbage", "waste") >>] >>

\* the names of the occurrences whose formatted day is d, in sequence order
RECURSIVE NamesOn(_, _)
NamesOn(occs, d) ==
    IF occs = << >> THEN << >>
    ELSE (IF GetFormattedDay(Head(occs)) = d THEN << Head(occs).name >> ELSE << >>)
             \o NamesOn(Tail(occs), d)

\* the occurrences of each formatted day are contiguous
GroupedByDay(occs) ==
    \A i, j, k \in 1..Len(occs) :
        (i < j /\ j < k /\ GetFormattedDay(occs[i]) = GetFormattedDay(occs[k]))
            => GetFormattedDay(occs[j]) = GetFormattedDay(occs[i])

\* equality of two strings up to the case of their ASCII letters
SameLetter(a, b) ==
    \/ a = b
    \/ \E i \in 1..Len(UpperChars) :
          {a, b} = {CharAt(UpperChars, i), CharAt(LowerChars, i)}

EqualIgnoringCase(a, b) ==
    /\ Len(a) = Len(b)
    /\ \A i \in 1..Len(a) : SameLetter(CharAt(a, i), CharAt(b, i))

Matches(occs, svcType) == {i \in 1..Len(occs) : EqualIgnoringCase(GetName(occs[i]), svcType)}

HasWaste(e) == \E i \in 1..Len(e.flags) : e.flags[i].service_name = "waste"

FirstWaste(e) ==
    e.flags[CHOOSE i \in 1..Len(e.flags) :
               /\ e.flags[i].service_name = "waste"
               /\ \A j \in 1..(i - 1) : e.flags[j].service_name # "waste"]

Count(endpoint) == Cardinality({i \in 1..Len(requests) : requests[i].endpoint = endpoint})

-----------------------------------------------------------------------------
(* C1 *)

\* C1: whenever WhatIsNext answers with collected services, the answer is the
\* prefix "On <day>, there will be curb side pick up for: " followed by the
\* list-join "a." / "a, and b." / "a, b, and c." of the lowercased codes, and
\* for the example events it is exactly the sentence of the specification.
C1_ListJoinPunctuation ==
    (Answered /\ IntentCase(intentName) = "WhatIsNext" /\ Len(serviceNames) >= 1)
        => /\ response.title = "Curbside Pick Up Schedule"
           /\ response.text = NextPrefix(pickUpDate) \o ListJoin(serviceNames)
           /\ (ScheduleFetched /\ scheduleResp.events = ExampleEvents)
                 => response.text = "On Monday, March 10, 2025, there will be curb side pick up for: garbage, and recycling."

-----------------------------------------------------------------------------
(* C2 *)

\* C2: a transport failure of the events request ends the query in an error,
\* and an answer after the events request was issued always rests on a
\* successfully fetched schedule.
C2_TransportFailureIsError ==
    /\ (Returned /\ scheduleResp.kind = "transport") => err # Nil
    /\ (Answered /\ Count("events") = 1) => ScheduleFetched

-----------------------------------------------------------------------------
(* C3 *)

\* C3 as claimed: for every order of the occurrences, the services WhatIsNext
\* lists are those of all occurrences whose day is the day named in the answer.
C3_AllServicesOfNamedDay ==
    (Answered /\ IntentCase(intentName) = "WhatIsNext" /\ Len(occurrences) >= 1)
        => serviceNames = SortStrings(NamesOn(occurrences, pickUpDate))

\* C3 amended: when the occurrences of each day are contiguous in the fetched
\* sequence, the answer names the first occurrence's day and the services
\* listed are those of all occurrences of that day, none missing, none extra,
\* each rendered in lowercase in the answer; in any order the services listed
\* are those of the leading run of occurrences of the first day.
C3_ServicesOfNextDayWhenGrouped ==
    (Answered /\ IntentCase(intentName) = "WhatIsNext" /\ Len(occurrences) >= 1)
        => /\ pickUpDate = GetFormattedDay(occurrences[1])
           /\ HasPrefix(response.text, NextPrefix(pickUpDate))
           /\ \A i \in 1..Len(serviceNames) :
                 Contains(SubSeq(response.text, Len(NextPrefix(pickUpDate)) + 1, Len(response.text)),
                          ToLower(serviceNames[i]))
           /\ GroupedByDay(occurrences)
                 => serviceNames = SortStrings(NamesOn(occurrences, pickUpDate))
           /\ \E n \in 1..Len(occurrences) :
                 /\ \A i \in 1..n : GetFormattedDay(occurrences[i]) = pickUpDate
                 /\ n < Len(occurrences) => GetFormattedDay(occurrences[n + 1]) # pickUpDate
                 /\ serviceNames = SortStrings([i \in 1..n |-> occurrences[i].name])

\* C3 witness: grouped occurrences of two days, two services on the first
C3_Witness ==
    /\ Answered /\ IntentCase(intentName) = "WhatIsNext"
    /\ Len(occurrences) = 3
    /\ GroupedByDay(occurrences)
    /\ Len(serviceNames) = 2
    /\ serviceNames[1] # serviceNames[2]

-----------------------------------------------------------------------------
(* C4 *)

\* C4: GetSchedule matches the request against the friendly names ignoring
\* letter case; with a match the answer gives the day of the first matching
\* occurrence for the lowercased request, under that occurrence's friendly
\* name; the "not scheduled" answer, in the caller's casing, is returned
\* exactly when no occurrence matches.
C4_GetScheduleMatch ==
    (Answered /\ IntentCase(intentName) = "GetSchedule")
        => LET m == Matches(occurrences, serviceType)
               notScheduled == "Curbside pick up for " \o serviceType
                                   \o " is not scheduled in the next 30 days."
           IN /\ m # {}
                 => LET first == occurrences[CHOOSE i \in m : \A j \in m : i <= j]
                    IN /\ response.text = "Curbside pick up for " \o ToLower(serviceType)
                                              \o " is on " \o GetFormattedDay(first) \o "."
                       /\ response.title = GetName(first) \o " Curbside Pick Up"
              /\ m = {}
                 => /\ response.text = notScheduled
                    /\ response.title = serviceType \o " Curbside Pick Up"
              /\ response.text = notScheduled <=> m = {}
              /\ (serviceType = "yard waste" /\ \E i \in 1..Len(occurrences) : occurrences[i].name = "yardwaste")
                 => response.title = "Yard Waste Curbside Pick Up"
              /\ (serviceType = "Leaf Collection" /\ \E i \in 1..Len(occurrences) : occurrences[i].name = "looseleaf")
                 => response.title = "Leaf Collection Curbside Pick Up"

\* C4 witness: "yard waste" is answered from yardwaste occurrences of two days,
\* the first of them behind an occurrence of another service
C4_Witness ==
    /\ Answered /\ IntentCase(intentName) = "GetSchedule"
    /\ serviceType = "yard waste"
    /\ Len(occurrences) = 3
    /\ occurrences[1].name = "Recycling"
    /\ occurrences[2] = [day |-> "2025-03-17", name |-> "yardwaste"]
    /\ occurrences[3] = [day |-> "2025-03-10", name |-> "yardwaste"]
    /\ response.text = "Curbside pick up for yard waste is on Monday, March 17, 2025."

-----------------------------------------------------------------------------
(* C5 *)

\* C5: the occurrences are, in upstream order, one per event that has a waste
\* flag, built from the event's day and its first waste flag's name; so there
\* are never more occurrences than events.
C5_FirstWasteFlagPerEvent ==
    (Returned /\ ScheduleFetched)
        => LET kept == SelectSeq(scheduleResp.events, HasWaste)
           IN /\ Len(occurrences) = Len(kept)
              /\ \A k \in 1..Len(kept) :
                    occurrences[k] = [day |-> kept[k].day, name |-> FirstWaste(kept[k]).name]
              /\ Len(occurrences) <= Len(scheduleResp.events)

\* C5 witness: an event without a waste flag is dropped and an event with two
\* waste flags yields the occurrence of its first
C5_Witness ==
    /\ Returned /\ ScheduleFetched
    /\ Len(scheduleResp.events) = 2
    /\ scheduleResp.events[1].flags = << Flag("Holiday", "reminder") >>
    /\ scheduleResp.events[2].flags = << Flag("Recycling", "waste"), Flag("Garbage", "waste") >>
    /\ occurrences = << [day |-> "2025-03-10", name |-> "Recycling"] >>

-----------------------------------------------------------------------------
(* C6 *)

\* C6: when address resolution fails (transport error, non-200 status,
\* unreadable or unparsable body, empty candidate array) the invocation
\* returns that error and no title/answer pair, for both intents.
C6_AddressFailurePropagates ==
    (pc # "getAddressID" /\ addressResp # NoResponse /\ ~AddressResolved)
        => /\ pc = "returned"
           /\ err # Nil
           /\ response = EmptyResponse
           /\ (addressResp.kind = "json" => err = Error("the address wasn't found"))

\* C6 witness: WhatIsNext returned after an empty candidate array
C6_Witness ==
    /\ Returned
    /\ IntentCase(intentName) = "WhatIsNext"
    /\ addressResp.kind = "json"
    /\ addressResp.addresses = << >>
    /\ err = Error("the address wasn't found")

-----------------------------------------------------------------------------
(* C7 *)

\* C7: each of the two requests is issued at most once; the events request is
\* issued only after the address-suggest request returned successfully with a
\* candidate, for the first candidate's place identifier; after a failed
\* response no further request is issued.
C7_SequentialSingleShot ==
    /\ Count("address-suggest") <= 1
    /\ Count("events") <= 1
    /\ Len(requests) = Count("address-suggest") + Count("events")
    /\ \A i \in 1..Len(requests) :
          requests[i].endpoint = "events"
              => /\ i = 2
                 /\ requests[1].endpoint = "address-suggest"
                 /\ addressResp.status = "200 OK"
                 /\ AddressResolved
                 /\ requests[i].arg = addressResp.addresses[1]
    /\ (addressResp # NoResponse /\ ~AddressResolved) => Len(requests) = 1
    /\ scheduleResp # NoResponse => (Len(requests) = 2 /\ pc = "returned")

\* C7 witness: both requests were issued, the second for the first of two candidates
C7_Witness ==
    /\ pc = "getThirtyDaySchedule"
    /\ addressResp.kind = "json"
    /\ addressResp.addresses = << "place-2", "place-1" >>
    /\ requests = << [endpoint |-> "address-suggest", arg |-> "1260 NW Maynard Rd"],
                     [endpoint |-> "events", arg |-> "place-2"] >>

-----------------------------------------------------------------------------
(* C8 *)

\* C8: GetSchedule and WhatIsNext are answered by their handlers (GetSchedule
\* with the collectionType slot value); the help intent and every other intent
\* return their fixed answers without error and without any upstream request;
\* with the address unset the invocation aborts before any request.
C8_Dispatch ==
    /\ (pc # "idle" /\ address = "")
          => (pc = "panicked" /\ requests = << >> /\ response = EmptyResponse /\ err = Nil)
    /\ (pc # "idle" /\ address # "" /\ intentName = "AMAZON.HelpIntent")
          => /\ Answered
             /\ response = NewSimpleResponse("Help", helpMsg)
             /\ requests = << >>
    /\ (pc # "idle" /\ address # "" /\ intentName \notin {"GetSchedule", "WhatIsNext", "AMAZON.HelpIntent"})
          => /\ Answered
             /\ response = NewSimpleResponse("Unknown Request", "The intent was unrecognized")
             /\ requests = << >>
    /\ (pc # "idle" /\ address # "" /\ intentName \in {"GetSchedule", "WhatIsNext"})
          => /\ Len(requests) >= 1
             /\ requests[1] = [endpoint |-> "address-suggest", arg |-> address]
    /\ (Returned /\ scheduleResp # NoResponse /\ intentName = "GetSchedule")
          => /\ response = handleGetSchedule([occurrences |-> occurrences, err |-> err], serviceType).response
             /\ (err = Nil => /\ HasSuffix(response.title, " Curbside Pick Up")
                              /\ HasPrefix(response.text, "Curbside pick up for " \o ToLower(serviceType))
                                 \/ HasPrefix(response.text, "Curbside pick up for " \o serviceType))
    /\ (Returned /\ scheduleResp # NoResponse /\ intentName = "WhatIsNext")
          => /\ response = handleWhatIsNext([occurrences |-> occurrences, err |-> err]).response
             /\ (err = Nil => response.title \in {"No Curbside Pick Up", "Curbside Pick Up Schedule"})

\* C8 witness: the help intent was answered without a request
C8_Witness ==
    /\ Returned
    /\ intentName = "AMAZON.HelpIntent"
    /\ response.title = "Help"
    /\ requests = << >>

-----------------------------------------------------------------------------
(* C9 *)

\* C9: with a fetched schedule of zero occurrences WhatIsNext answers, without
\* error, "No curbside pick up is scheduled in the next 30 days." under the
\* title "No Curbside Pick Up"; with at least one occurrence it answers under
\* "Curbside Pick Up Schedule", naming the first occurrence's formatted day
\* and at least one service.
C9_EmptyAndNonEmptySchedule ==
    (Returned /\ ScheduleFetched /\ IntentCase(intentName) = "WhatIsNext")
        => /\ err = Nil
           /\ Len(occurrences) = 0
                 => response = NewSimpleResponse("No Curbside Pick Up",
                                    "No curbside pick up is scheduled in the next 30 days.")
           /\ Len(occurrences) >= 1
                 => /\ response.title = "Curbside Pick Up Schedule"
                    /\ HasPrefix(response.text, NextPrefix(GetFormattedDay(occurrences[1])))
                    /\ Len(serviceNames) >= 1
                    /\ Contains(SubSeq(response.text,
                                       Len(NextPrefix(GetFormattedDay(occurrences[1]))) + 1,
                                       Len(response.text)),
                                ToLower(occurrences[1].name))

\* C9 witness: the fetched events carry no waste flag
C9_Witness ==
    /\ Returned /\ ScheduleFetched /\ IntentCase(intentName) = "WhatIsNext"
    /\ Len(scheduleResp.events) = 2
    /\ occurrences = << >>
    /\ response.title = "No Curbside Pick Up"

-----------------------------------------------------------------------------
(* C10 *)

\* C10: every occurrence's day parses as a YYYY-MM-DD date, and two
\* occurrences with the same formatted day have the same day.
C10_DayParseable ==
    \A i, j \in 1..Len(occurrences) :
        /\ ParseDay(occurrences[i].day).ok
        /\ GetFormattedDay(occurrences[i]) = GetFormattedDay(occurrences[j])
              => occurrences[i].day = occurrences[j].day

=============================================================================
